---- MODULE Spec2Model ----
(***************************************************************************)
(* The request admission pipeline of the Arogya AI edge server             *)
(* (src/server.js).                                                        *)
(*                                                                         *)
(* One step of the model is one HTTP GET request travelling through the    *)
(* whole Express middleware stack, or the window of one limiter running    *)
(* out.  The stack is modelled layer by layer in registration order;       *)
(* Express's next()/next(err) protocol is the operator Dispatch.           *)
(* The rate limiters are express-rate-limit instances with the default     *)
(* in-memory store: a per-client hit count and a window that starts with   *)
(* the first counted request and lasts windowMs.  Time is not counted:     *)
(* the model keeps the order in which the two windows of a client can      *)
(* end, which is all a request can observe of it.                          *)
(***************************************************************************)
EXTENDS Integers, Sequences, FiniteSets, TLC

(***************************************************************************)
(* Bounds of the model.                                                    *)
(***************************************************************************)
\* How far past a limiter's cap a client's hit counter may run before the
\* model stops issuing requests for it (the code's counters are unbounded).
OverCap == 2

(***************************************************************************)
(* Configuration and inputs.                                               *)
(***************************************************************************)
Clients == {"10.0.0.1"}

\* A process.env entry that is not set.
Unset == "undefined"

\* Request paths, as segment sequences.
HealthPath == <<"api", "health">>
KeysPath == <<"api", "keys">>
OtherApiPath == <<"api", "unknown">>
AssetPath == <<"style.css">>
DeepLinkPath == <<"dashboard", "reports">>
Paths == {HealthPath, KeysPath, OtherApiPath, AssetPath, DeepLinkPath}

\* The files of the public directory.
StaticFiles == {AssetPath, <<"index.html">>}

\* Origin header values, as token sequences (scheme, then host pieces).
\* The empty sequence is an absent header.
NoOrigin == <<>>

LocalOrigin == <<"https://", "localhost", ":3000">>

Origins ==
  { NoOrigin,
    LocalOrigin,
    <<"https://", "arogya-ai.vercel.app", ".evil.example">>,
    <<"https://", "evil.example">> }

\* What can go wrong while a request is served: a body one of the parsers
\* rejects, or a failure inside one of the handlers.
BodyFaults == {"json.too.large", "json.malformed", "urlencoded.too.large"}

Faults == BodyFaults \cup {"none", "static", "health", "keys", "sendFile"}

\* The faults tried on each path: every parser fault reaches some route,
\* every handler fault the path served by that handler.
FaultsOf(path) ==
  CASE path = HealthPath -> {"none", "json.too.large", "health"}
    [] path = KeysPath -> {"none", "urlencoded.too.large", "keys"}
    [] path = OtherApiPath -> {"none"}
    [] path = AssetPath -> {"none", "json.malformed", "static"}
    [] path = DeepLinkPath -> {"none", "json.too.large", "sendFile"}

\* The GET requests the model issues.  Only /api/keys reads the Origin
\* header, so only its requests vary it.
Requests ==
  { r \in [client : Clients, path : Paths, origin : Origins, fault : Faults] :
      /\ r.fault \in FaultsOf(r.path)
      /\ r.path # KeysPath => r.origin = NoOrigin
      /\ r.fault # "none" =>
           r.origin = (IF r.fault = "keys" THEN LocalOrigin ELSE NoOrigin) }

VARIABLES
  processEnv,     \* process.env
  generalStore,   \* generalLimiter's store: client -> [hits, running]
  apiStore,       \* apiLimiter's store: client -> [hits, running]
  apiLate,        \* client -> its api window began after its general window
  limitedByApi,   \* client -> "limited": apiLimiter's last answer to it was
                  \* a 429; "elapsed": and that api window has ended since;
                  \* "recovered": and apiLimiter has admitted it again
  resp            \* the response to the request of the last step

vars == <<processEnv, generalStore, apiStore, apiLate, limitedByApi, resp>>

(***************************************************************************)
(* Small helpers.                                                          *)
(***************************************************************************)
\* JavaScript truthiness of a process.env entry.
Truthy(v) == v # Unset /\ v # ""

Max0(n) == IF n < 0 THEN 0 ELSE n

NoErr == [status |-> 0, message |-> ""]

NoKeys == [present |-> FALSE, groq |-> "", perplexity |-> "", gemini |-> ""]

NoRateLimit == [set |-> FALSE, limit |-> 0, used |-> 0, remaining |-> 0]

NoHeaders == [csp |-> "", hsts |-> "", xfo |-> "", referrer |-> ""]

NoRequest == [client |-> "", path |-> <<>>, origin |-> <<>>, fault |-> "none"]

(***************************************************************************)
(* helmet: the fixed security headers.                                     *)
(***************************************************************************)
HelmetHeaders ==
  [csp |-> "default-src 'self'; script-src ...; connect-src ...; frame-src 'none'",
   hsts |-> "max-age=31536000; includeSubDomains; preload",
   xfo |-> "DENY",
   referrer |-> "strict-origin-when-cross-origin"]

(***************************************************************************)
(* express-rate-limit: configuration of the two limiters and the store.    *)
(***************************************************************************)
GeneralWindowMs == 15 * 60 * 1000

GeneralMax == 100

GeneralMessage ==
  [error |-> "Too many requests from this IP, please try again later.",
   retryAfter |-> "15 minutes"]

ApiWindowMs == 1 * 60 * 1000

ApiMax == 10

ApiMessage ==
  [error |-> "Too many API requests, please slow down.",
   retryAfter |-> "1 minute"]

\* A store entry: the hits counted in the client's running window.
\* running = FALSE: no window is running (none yet, or the last one ended).
EmptyEntry == [hits |-> 0, running |-> FALSE]

\* store.increment(key): a new window starts when none is running.
Increment(e) ==
  IF e.running
    THEN [e EXCEPT !.hits = @ + 1]
    ELSE [hits |-> 1, running |-> TRUE]

\* A store that never drops a window.
ResetClientKeepsWindow(e) == e

\* The store drops a client's window once windowMs have passed.
ResetClient(e) == EmptyEntry

\* An off-by-one in the limiter's comparison.
ExceededLenient(hits, max) == hits > max + 1

\* The limiter's decision: the request is rejected when the count, this
\* request included, is above max.
Exceeded(hits, max) == hits > max

(***************************************************************************)
(* The request context travelling down the stack.                          *)
(***************************************************************************)
NewCtx(r) ==
  [req |-> r,
   general |-> generalStore[r.client],
   api |-> apiStore[r.client],
   rateLimit |-> NoRateLimit,
   headers |-> NoHeaders,
   err |-> NoErr,
   failed |-> FALSE,
   sent |-> FALSE,
   status |-> 0,
   handler |-> "none",
   kind |-> "none",
   error |-> "",
   message |-> "",
   retryAfter |-> "",
   environment |-> "",
   keys |-> NoKeys,
   file |-> <<>>]

\* next(err)
NextErr(ctx, status, message) ==
  [ctx EXCEPT !.err = [status |-> status, message |-> message], !.failed = TRUE]

\* res.status(status).json({error, message, retryAfter})
SendJson(ctx, handler, status, error, message, retryAfter) ==
  [ctx EXCEPT !.sent = TRUE, !.status = status, !.handler = handler,
              !.kind = "json", !.error = error, !.message = message,
              !.retryAfter = retryAfter]

\* A file of the public directory sent as the body.
SendFileBody(ctx, handler, file) ==
  [ctx EXCEPT !.sent = TRUE, !.status = 200, !.handler = handler,
              !.kind = "file", !.file = file]

(***************************************************************************)
(* The layers, in the order of the source.                                 *)
(***************************************************************************)
\* express.json({ limit: '10mb' })
jsonParser(ctx) ==
  IF ctx.req.fault = "json.too.large"
    THEN NextErr(ctx, 413, "request entity too large")
  ELSE IF ctx.req.fault = "json.malformed"
    THEN NextErr(ctx, 400, "Unexpected token in JSON")
  ELSE ctx

\* express.urlencoded({ extended: true, limit: '10mb' })
urlencodedParser(ctx) ==
  IF ctx.req.fault = "urlencoded.too.large"
    THEN NextErr(ctx, 413, "request entity too large")
    ELSE ctx

\* helmet({...})
helmet(ctx) == [ctx EXCEPT !.headers = HelmetHeaders]

\* The middleware rateLimit({windowMs, max, message}) returns; `field` names
\* the store entry of the client it counts in.
rateLimit(ctx, name, field, max, msg) ==
  LET e == Increment(ctx[field])
      info == [set |-> TRUE, limit |-> max, used |-> e.hits,
               remaining |-> Max0(max - e.hits)]
      counted == [ctx EXCEPT ![field] = e, !.rateLimit = info]
  IN  IF Exceeded(e.hits, max)
        THEN SendJson(counted, name, 429, msg.error, "", msg.retryAfter)
        ELSE counted

generalLimiter(ctx) ==
  rateLimit(ctx, "generalLimiter", "general", GeneralMax, GeneralMessage)

apiLimiter(ctx) ==
  rateLimit(ctx, "apiLimiter", "api", ApiMax, ApiMessage)

\* compression(): changes the encoding of the body only.
compression(ctx) == ctx

\* express.static(public)
static(ctx) ==
  IF ctx.req.fault = "static"
    THEN NextErr(ctx, 500, "EACCES: permission denied")
  ELSE IF ctx.req.path \in StaticFiles
    THEN SendFileBody(ctx, "static", ctx.req.path)
  ELSE ctx

\* app.get('/api/health')
health(ctx) ==
  IF ctx.req.fault = "health"
    THEN NextErr(ctx, 0, "health check failed")
    ELSE [SendJson(ctx, "health", 200, "", "", "") EXCEPT
            !.environment = IF Truthy(processEnv.NODE_ENV)
                              THEN processEnv.NODE_ENV ELSE "development"]

\* origin.match(/^https?:\/\/(localhost|arogya-ai\.vercel\.app)/): the
\* pattern is anchored at the start only.
OriginMatches(o) ==
  /\ Len(o) >= 2
  /\ o[1] \in {"http://", "https://"}
  /\ o[2] \in {"localhost", "arogya-ai.vercel.app"}

\* The keys object: each credential, or '' when it is not set.
KeysBody ==
  [present |-> TRUE,
   groq |-> IF Truthy(processEnv.GROQ_API_KEY)
              THEN processEnv.GROQ_API_KEY ELSE "",
   perplexity |-> IF Truthy(processEnv.PERPLEXITY_API_KEY)
                    THEN processEnv.PERPLEXITY_API_KEY ELSE "",
   gemini |-> IF Truthy(processEnv.GEMINI_API_KEY)
                THEN processEnv.GEMINI_API_KEY ELSE ""]

\* res.json(keys)
SendKeys(ctx) ==
  [ctx EXCEPT !.sent = TRUE, !.status = 200, !.handler = "keys",
              !.kind = "json", !.keys = KeysBody]

\* app.get('/api/keys')
keys(ctx) ==
  IF /\ processEnv.NODE_ENV = "production"
     /\ (ctx.req.origin = NoOrigin \/ ~OriginMatches(ctx.req.origin))
    THEN SendJson(ctx, "keys", 403, "Unauthorized origin", "", "")
  ELSE IF ctx.rateLimit.set /\ ctx.rateLimit.remaining = 0
    THEN SendJson(ctx, "keys", 429, "Too many requests", "", "")
  ELSE IF ctx.req.fault = "keys"
    THEN SendJson(ctx, "keys", 500, "Internal server error", "", "")
  ELSE SendKeys(ctx)

\* app.use((err, req, res, next) => ...)
errorHandler(ctx) ==
  SendJson(ctx, "errorHandler", 500, "Internal server error",
           IF processEnv.NODE_ENV = "development"
             THEN ctx.err.message ELSE "Something went wrong",
           "")

\* app.get('*'): res.sendFile(public/index.html)
spaFallback(ctx) ==
  IF ctx.req.fault = "sendFile"
    THEN NextErr(ctx, 404, "ENOENT: no such file or directory")
    ELSE SendFileBody(ctx, "spaFallback", <<"index.html">>)

\* Express's default handler, reached when the stack is exhausted: an HTML
\* page with the error's status (500 when it has none), or 404 when no
\* layer answered.  It replaces the Content-Security-Policy header.
finalhandler(ctx) ==
  [ctx EXCEPT
     !.sent = TRUE,
     !.handler = "finalhandler",
     !.kind = "html",
     !.status = IF ~ctx.failed THEN 404
                ELSE IF ctx.err.status \in 400..599 THEN ctx.err.status
                ELSE 500,
     !.headers = [@ EXCEPT !.csp = "default-src 'none'"]]

(***************************************************************************)
(* The stack and Express's dispatch.                                       *)
(***************************************************************************)
\* The catch-all route registered before the API routes.
StackFallbackFirst ==
  << "jsonParser", "urlencodedParser", "helmet", "generalLimiter",
     "apiLimiter", "compression", "static", "spaFallback", "health", "keys",
     "errorHandler" >>

\* The API limiter mounted before the general one.
StackApiLimiterFirst ==
  << "jsonParser", "urlencodedParser", "helmet", "apiLimiter",
     "generalLimiter", "compression", "static", "health", "keys",
     "errorHandler", "spaFallback" >>

\* The layers in registration order.
Stack ==
  << "jsonParser", "urlencodedParser", "helmet", "generalLimiter",
     "apiLimiter", "compression", "static", "health", "keys",
     "errorHandler", "spaFallback" >>

\* Whether a layer's mount path or route matches the request.
Matches(layer, r) ==
  CASE layer = "apiLimiter" -> Len(r.path) >= 1 /\ r.path[1] = "api"
    [] layer = "health" -> r.path = HealthPath
    [] layer = "keys" -> r.path = KeysPath
    [] OTHER -> TRUE

RunLayer(layer, ctx) ==
  CASE layer = "jsonParser" -> jsonParser(ctx)
    [] layer = "urlencodedParser" -> urlencodedParser(ctx)
    [] layer = "helmet" -> helmet(ctx)
    [] layer = "generalLimiter" -> generalLimiter(ctx)
    [] layer = "apiLimiter" -> apiLimiter(ctx)
    [] layer = "compression" -> compression(ctx)
    [] layer = "static" -> static(ctx)
    [] layer = "health" -> health(ctx)
    [] layer = "keys" -> keys(ctx)
    [] layer = "spaFallback" -> spaFallback(ctx)

\* next(): layers from position i on.  With an error pending only an
\* error-handling layer (four arguments) runs; without one it is skipped.
RECURSIVE Dispatch(_, _)
Dispatch(i, ctx) ==
  IF ctx.sent THEN ctx
  ELSE IF i > Len(Stack) THEN finalhandler(ctx)
  ELSE IF ctx.failed
    THEN IF Stack[i] = "errorHandler"
           THEN errorHandler(ctx)
           ELSE Dispatch(i + 1, ctx)
  ELSE IF Stack[i] = "errorHandler" \/ ~Matches(Stack[i], ctx.req)
    THEN Dispatch(i + 1, ctx)
  ELSE Dispatch(i + 1, RunLayer(Stack[i], ctx))

(***************************************************************************)
(* State machine.                                                          *)
(***************************************************************************)
Idle ==
  [req |-> NoRequest, status |-> 0, handler |-> "none", kind |-> "none",
   headers |-> NoHeaders, error |-> "", message |-> "", retryAfter |-> "",
   environment |-> "", keys |-> NoKeys, file |-> <<>>, err |-> NoErr,
   failed |-> FALSE]

Response(ctx) ==
  [req |-> ctx.req, status |-> ctx.status, handler |-> ctx.handler,
   kind |-> ctx.kind, headers |-> ctx.headers, error |-> ctx.error,
   message |-> ctx.message, retryAfter |-> ctx.retryAfter,
   environment |-> ctx.environment, keys |-> ctx.keys, file |-> ctx.file,
   err |-> ctx.err, failed |-> ctx.failed]

\* The environments a process is started in, for the given values of
\* NODE_ENV: two of the three credentials are configured, one is not.
Environments(modes) ==
  { [NODE_ENV |-> e, GROQ_API_KEY |-> "gsk_live_1",
     PERPLEXITY_API_KEY |-> Unset, GEMINI_API_KEY |-> "AIza_live_3"] :
      e \in modes }

\* The server has started and has served nothing yet.
Fresh ==
  /\ generalStore = [c \in Clients |-> EmptyEntry]
  /\ apiStore = [c \in Clients |-> EmptyEntry]
  /\ apiLate = [c \in Clients |-> FALSE]
  /\ limitedByApi = [c \in Clients |-> "no"]
  /\ resp = Idle

\* The deployed server: the image sets NODE_ENV=production.
Init ==
  /\ processEnv \in Environments({"production"})
  /\ Fresh

\* The server started outside production: NODE_ENV is 'development' or is
\* not set.
InitDev ==
  /\ processEnv \in Environments({"development", Unset})
  /\ Fresh

\* One GET request through the whole stack.
HandleRequest(r) ==
  LET c == r.client
      out == Dispatch(1, NewCtx(r))
  IN  /\ generalStore[c].hits < GeneralMax + OverCap
      /\ Matches("apiLimiter", r) => apiStore[c].hits < ApiMax + OverCap
      /\ generalStore' = [generalStore EXCEPT ![c] = out.general]
      /\ apiStore' = [apiStore EXCEPT ![c] = out.api]
      /\ apiLate' =
           [apiLate EXCEPT ![c] =
              IF out.api.running /\ ~apiStore[c].running
                THEN generalStore[c].running
                ELSE @]
      /\ limitedByApi' =
           [limitedByApi EXCEPT ![c] =
              IF out.handler = "apiLimiter" THEN "limited"
              ELSE IF out.api # apiStore[c]
                THEN (IF @ = "elapsed" THEN "recovered" ELSE "no")
              ELSE @]
      /\ resp' = Response(out)
      /\ UNCHANGED processEnv

\* windowMs (15 minutes) have passed since the first request of the client's
\* general window.  An api window still running then must have begun after
\* the general window did, the api window being the shorter one.
GeneralWindowElapses(c) ==
  /\ generalStore[c].running
  /\ apiStore[c].running => (apiLate[c] \/ GeneralWindowMs <= ApiWindowMs)
  /\ generalStore' = [generalStore EXCEPT ![c] = ResetClient(@)]
  /\ apiLate' = [apiLate EXCEPT ![c] = FALSE]
  /\ resp' = Idle
  /\ UNCHANGED <<processEnv, apiStore, limitedByApi>>

\* windowMs (1 minute) have passed since the first request of the client's
\* api window.
ApiWindowElapses(c) ==
  /\ apiStore[c].running
  /\ apiStore' = [apiStore EXCEPT ![c] = ResetClient(@)]
  /\ apiLate' = [apiLate EXCEPT ![c] = FALSE]
  /\ limitedByApi' =
       [limitedByApi EXCEPT ![c] = IF @ = "limited" THEN "elapsed" ELSE @]
  /\ resp' = Idle
  /\ UNCHANGED <<processEnv, generalStore>>

Next ==
  \/ \E r \in Requests : HandleRequest(r)
  \/ \E c \in Clients : GeneralWindowElapses(c)
  \/ \E c \in Clients : ApiWindowElapses(c)

Spec == Init /\ [][Next]_vars

SpecDev == InitDev /\ [][Next]_vars

(***************************************************************************)
(* Properties.                                                             *)
(***************************************************************************)
IsApi(r) == Len(r.path) >= 1 /\ r.path[1] = "api"

Parsed(r) == r.fault \notin BodyFaults

ByLimiter(h) == h \in {"generalLimiter", "apiLimiter"}

\* The origin's host is exactly an allow-listed host (a port may follow).
AllowListedHosts == {"localhost", "arogya-ai.vercel.app", "render.com"}

AllowListed(o) ==
  /\ Len(o) \in {2, 3}
  /\ o[1] \in {"http://", "https://"}
  /\ o[2] \in AllowListedHosts
  /\ Len(o) = 3 => o[3] = ":3000"

C2_ForeignOriginIs403 ==
  ( /\ processEnv.NODE_ENV = "production"
    /\ resp.req.path = KeysPath
    /\ resp.handler = "keys"
    /\ ~AllowListed(resp.req.origin) )
  => ( /\ resp.status = 403
       /\ resp.error = "Unauthorized origin"
       /\ ~resp.keys.present )

\* The credentials as configured: the secret, or '' when it is not set.
Configured(v) == IF v = Unset THEN "" ELSE v

\* C3 (as stated): a GET /api/keys request that passes origin validation
\* and that both limiters admit (the client's counts, this request
\* included, are within both caps) is answered 200 with the three
\* configured credentials.
C3_AdmittedKeysRequestIs200 ==
  \A c \in Clients :
    ( /\ resp.req.client = c
      /\ resp.req.path = KeysPath
      /\ resp.req.fault = "none"
      /\ ~ByLimiter(resp.handler)
      /\ processEnv.NODE_ENV = "production" => OriginMatches(resp.req.origin)
      /\ generalStore[c].hits <= GeneralMax
      /\ apiStore[c].hits <= ApiMax )
    => ( /\ resp.status = 200
         /\ resp.keys.present
         /\ resp.keys.groq = Configured(processEnv.GROQ_API_KEY)
         /\ resp.keys.perplexity = Configured(processEnv.PERPLEXITY_API_KEY)
         /\ resp.keys.gemini = Configured(processEnv.GEMINI_API_KEY) )

\* C4 (as stated): a request whose body is over the 10 MB ceiling is
\* answered with a 4xx status and no route handler runs for it.
C4_OversizedBodyIs4xx ==
  resp.req.fault \in {"json.too.large", "urlencoded.too.large"}
  => ( /\ resp.status \in 400..499
       /\ resp.handler \notin {"static", "health", "keys", "spaFallback"} )

\* C5 (as stated): an error propagated by any stage is answered by the
\* terminal error handler with 500 "Internal server error".
C5_PropagatedErrorReachesErrorHandler ==
  resp.failed
  => ( /\ resp.handler = "errorHandler"
       /\ resp.status = 500
       /\ resp.kind = "json"
       /\ resp.error = "Internal server error" )

\* C6 (as stated): every response carries the fixed security headers.
C6_EveryResponseHasSecurityHeaders ==
  resp.handler # "none"
  => ( /\ resp.headers.csp # ""
       /\ resp.headers.hsts = "max-age=31536000; includeSubDomains; preload"
       /\ resp.headers.xfo = "DENY"
       /\ resp.headers.referrer # "" )

\* C7 (as stated): the error handler's message is the error's own message
\* in every mode but production, and the generic text in production.
C7_DetailOutsideProduction ==
  resp.handler = "errorHandler"
  => ( /\ resp.error = "Internal server error"
       /\ resp.message =
            IF processEnv.NODE_ENV = "production"
              THEN "Something went wrong" ELSE resp.err.message )

Unmatched(path) == path \notin {HealthPath, KeysPath} \cup StaticFiles

C10_TiersIndependent ==
  [][\A c \in Clients :
       (resp'.req.client = c /\ Parsed(resp'.req))
       => ( /\ generalStore'[c] = Increment(generalStore[c])
            /\ apiStore'[c] =
                 IF IsApi(resp'.req)
                   THEN Increment(apiStore[c]) ELSE apiStore[c] )]_vars

\* C10 (amended): Tier A counts and decides every request the parsers accept
\* from its own counter alone, whether or not Tier B is exhausted.  Tier B
\* counts an /api/ request only when Tier A admits it: a request Tier A
\* rejects leaves Tier B's counter as it was, neither counted nor reset.
C10_TierAIndependentOfTierB ==
  [][\A c \in Clients :
       (resp'.req.client = c /\ Parsed(resp'.req))
       => ( /\ generalStore'[c] = Increment(generalStore[c])
            /\ (resp'.handler = "generalLimiter")
                 <=> (generalStore'[c].hits > GeneralMax)
            /\ apiStore'[c] =
                 IF IsApi(resp'.req) /\ resp'.handler # "generalLimiter"
                   THEN Increment(apiStore[c]) ELSE apiStore[c] )]_vars

\* Tier B has rejected a request that Tier A counted, with Tier B over its
\* cap and Tier A's counter ahead of it.
C10_Witness ==
  \E c \in Clients :
    /\ resp.req.client = c
    /\ resp.handler = "apiLimiter"
    /\ apiStore[c].hits > ApiMax
    /\ generalStore[c].hits > apiStore[c].hits

====
